---- MODULE Spec2Model ----
(***************************************************************************)
(* Model of notebook/supervisor_subagent.py: the meetup planner's tools    *)
(* (find_area, search_food, search_activity, update_state), the three      *)
(* functions find_area calls (postcode_to_latlon, midpoint_latlon,         *)
(* latlong_to_area) and the MeetUpState the coordinator's runtime keeps.   *)
(*                                                                         *)
(* Conventions.                                                            *)
(*  - A Python value that may be None (a JSON value that may be null) is   *)
(*    a sequence of length at most one: None is <<>>, a value v is <<v>>.  *)
(*  - A postcode string is a sequence of one-character strings, so that    *)
(*    str.replace and str.upper are computed character by character.       *)
(*  - A JSON object is a record; a key the object omits is a field the     *)
(*    record does not have.                                                *)
(*  - A coordinate is an integer count of half units (one unit = 0.01      *)
(*    degree).  The service answers in whole units (even counts), so the   *)
(*    mean of two answers is an exact count of half units.                 *)
(*  - The remote services, the sub-agents and the coordinator's choice of  *)
(*    tool and arguments are the environment: each is a choice with \E.    *)
(***************************************************************************)
EXTENDS Integers, Sequences, FiniteSets

VARIABLES
    state,      \* MeetUpState, as committed by the coordinator's runtime
    pc,         \* position of the running find_area invocation, or "idle"
    args,       \* find_area's parameters (person_1_postcode, person_2_postcode)
    p1, p2,     \* find_area's locals p1, p2
    c1, c2,     \* find_area's locals (lat1, lon1) and (lat2, lon2)
    mid,        \* find_area's locals (mid_lat, mid_lon)
    area,       \* find_area's local area
    trace,      \* the calls the last tool invocation has made, in order
    result      \* what the last tool invocation handed to the runtime

vars == <<state, pc, args, p1, p2, c1, c2, mid, area, trace, result>>

None == <<>>
Some(v) == <<v>>

(***************************************************************************)
(* Bounds of the model.                                                    *)
(***************************************************************************)
MaxLen == 3        \* longest raw postcode string enumerated
MaxResults == 2    \* longest result list of a reverse-lookup response

(***************************************************************************)
(* Strings.                                                                *)
(***************************************************************************)
Space == " "
Tab == "\t"
Chars == {"e", "E", "1", Space, Tab}
Whitespace == {Space, Tab}
LowerCase == {"e"}

RECURSIVE StrUpTo(_)
StrUpTo(n) == IF n = 0 THEN {<<>>}
              ELSE LET S == StrUpTo(n - 1)
                   IN  S \cup {Append(s, c) : s \in {t \in S : Len(t) = n - 1}, c \in Chars}

Strings == StrUpTo(MaxLen)

\* str.replace(" ", ""): every U+0020 is dropped, nothing else is
RECURSIVE replace_space(_)
replace_space(s) ==
    IF s = <<>> THEN <<>>
    ELSE IF Head(s) = Space THEN replace_space(Tail(s))
         ELSE <<Head(s)>> \o replace_space(Tail(s))

upper_char(c) == IF c = "e" THEN "E" ELSE c

\* str.upper()
upper(s) == [i \in 1..Len(s) |-> upper_char(s[i])]

\* person_N_postcode.replace(" ", "").upper()
normalize(s) == upper(replace_space(s))

(***************************************************************************)
(* Python outcomes: a call returns a value or raises an exception.         *)
(***************************************************************************)
Return(v) == [ok |-> TRUE, val |-> Some(v), exc |-> ""]
Raise(e) == [ok |-> FALSE, val |-> None, exc |-> e]

\* dict.get(key): the value, or None when the key is absent
get(obj, key) == IF key \in DOMAIN obj THEN obj[key] ELSE None

\* Python truthiness of a JSON value that is null, or a list
falsy(v) == v = None \/ v[1] = <<>>

(***************************************************************************)
(* The geocode service, api.postcodes.io/postcodes/{postcode}.             *)
(* A reply is a failed transfer or a JSON body.                            *)
(***************************************************************************)
\* 10300 and 10304 are 51.50 and 51.52 degrees, -20 and -24 are -0.10 and -0.12
GeoObjects ==
    {[latitude |-> Some(10300), longitude |-> Some(-20)],
     [latitude |-> Some(10304), longitude |-> Some(-24)],
     [latitude |-> None, longitude |-> None],
     [longitude |-> Some(-20)]}

GeoBodies ==
    {[status |-> Some(404), error |-> Some("Invalid postcode")],
     [status |-> Some(200), result |-> None]}
    \cup {[status |-> Some(200), result |-> Some(o)] : o \in GeoObjects}
    \cup {[status |-> Some(404), result |-> Some([latitude |-> Some(10300),
                                                  longitude |-> Some(-24)])]}

GeoReplies ==
    {[failed |-> TRUE, body |-> None]}
    \cup {[failed |-> FALSE, body |-> Some(b)] : b \in GeoBodies}

\* r = requests.get(url).json()["result"]; return r["latitude"], r["longitude"]
postcode_to_latlon(postcode, reply) ==
    IF reply.failed THEN Raise("ConnectionError")
    ELSE LET body == reply.body[1] IN
         IF "result" \notin DOMAIN body THEN Raise("KeyError")
         ELSE IF body.result = None THEN Raise("TypeError")
         ELSE LET r == body.result[1] IN
              IF "latitude" \notin DOMAIN r \/ "longitude" \notin DOMAIN r
              THEN Raise("KeyError")
              ELSE Return(<<r.latitude, r.longitude>>)

(***************************************************************************)
(* midpoint_latlon.  None + None raises TypeError.                         *)
(***************************************************************************)
\* midpoint_latlon returning its two results in the other order
midpoint_latlon_swapped(lat1, long1, lat2, long2) ==
    IF None \in {lat1, long1, lat2, long2} THEN Raise("TypeError")
    ELSE Return(<<Some((long1[1] + long2[1]) \div 2), Some((lat1[1] + lat2[1]) \div 2)>>)

midpoint_latlon(lat1, long1, lat2, long2) ==
    IF None \in {lat1, long1, lat2, long2} THEN Raise("TypeError")
    ELSE Return(<<Some((lat1[1] + lat2[1]) \div 2), Some((long1[1] + long2[1]) \div 2)>>)

(***************************************************************************)
(* The reverse lookup, api.postcodes.io/postcodes?lon=..&lat=..            *)
(***************************************************************************)
Radius == 2000
Limit == 1
StatusOk == 200

Camden == [postcode |-> Some("NW1 8AB"), admin_district |-> Some("Camden"),
           region |-> Some("London")]
TowerHamlets == [postcode |-> Some("E1 6AN"), admin_district |-> Some("Tower Hamlets"),
                 region |-> Some("London")]
NullRegion == [postcode |-> Some("EH1 1YZ"), admin_district |-> Some("City of Edinburgh"),
               region |-> None]
EmptyDistrict == [postcode |-> Some("IM1 1AA"), admin_district |-> Some(""),
                  region |-> None]
RevEntries == {Camden, TowerHamlets, NullRegion, EmptyDistrict}

RECURSIVE ListsUpTo(_)
ListsUpTo(n) == IF n = 0 THEN {<<>>}
                ELSE LET S == ListsUpTo(n - 1)
                     IN  S \cup {Append(s, e) : s \in {t \in S : Len(t) = n - 1}, e \in RevEntries}

RevBodies ==
    {[status |-> Some(s)] : s \in {200, 404}}
    \cup {[status |-> Some(s), result |-> None] : s \in {200, 404}}
    \cup {[status |-> Some(s), result |-> Some(l)] : s \in {200, 404}, l \in ListsUpTo(MaxResults)}
    \cup {[result |-> Some(<<Camden>>)]}

RevReplies ==
    {[failed |-> TRUE, body |-> None]}
    \cup {[failed |-> FALSE, body |-> Some(b)] : b \in RevBodies}

\* the query string of the reverse lookup's URL
reverse_url(lat, long) == [lon |-> long, lat |-> lat, radius |-> Radius, limit |-> Limit]

\* latlong_to_area testing the status alone: data["result"][0] then fails by itself
latlong_to_area_status_only(lat, long, reply) ==
    IF reply.failed THEN Raise("ConnectionError")
    ELSE LET data == reply.body[1] IN
         IF get(data, "status") # Some(StatusOk) THEN Raise("ValueError")
         ELSE IF "result" \notin DOMAIN data THEN Raise("KeyError")
         ELSE IF data.result = None THEN Raise("TypeError")
         ELSE IF data.result[1] = <<>> THEN Raise("IndexError")
         ELSE LET r == data.result[1][1] IN
              Return([postcode |-> r.postcode,
                      district |-> r.admin_district,
                      region |-> r.region])

latlong_to_area(lat, long, reply) ==
    IF reply.failed THEN Raise("ConnectionError")
    ELSE LET data == reply.body[1] IN
         IF get(data, "status") # Some(StatusOk) \/ falsy(get(data, "result"))
         THEN Raise("ValueError")
         ELSE LET r == data.result[1][1] IN
              Return([postcode |-> r.postcode,
                      district |-> r.admin_district,
                      region |-> r.region])

(***************************************************************************)
(* MeetUpState and the runtime's commit of a Command's update.             *)
(***************************************************************************)
StateKeys == {"person_1_postcode", "person_2_postcode", "midpoint_area",
              "food_place", "activity_place"}

\* a state in which no key has been set
EmptyState == [k \in StateKeys |-> None]

\* the keys of the update replace the state's, the other keys stay
Commit(st, update) ==
    [k \in StateKeys |-> IF k \in DOMAIN update THEN update[k] ELSE st[k]]

(***************************************************************************)
(* What a tool hands to the runtime.                                       *)
(***************************************************************************)
NoResult == [tool |-> "", kind |-> "none", exc |-> "", update |-> None,
             query |-> None, text |-> None]
ErrorResult(t, e) == [NoResult EXCEPT !.tool = t, !.kind = "error", !.exc = e]
CommandResult(t, u) == [NoResult EXCEPT !.tool = t, !.kind = "command", !.update = Some(u)]
TextResult(t, q, x) == [NoResult EXCEPT !.tool = t, !.kind = "text", !.query = Some(q),
                                        !.text = Some(x)]

\* await obj: a Command defines no __await__, so the await raises TypeError
Await(obj) == Raise("TypeError")

(***************************************************************************)
(* The arguments the coordinator may pass.                                 *)
(***************************************************************************)
RawInputs == {<<"E", "1">>, <<"e", Space, "1">>}
AreaInputs == {"Camden", ""}
PlaceInputs == {"Dishoom"}
AgentAnswers == {"three options"}

Init ==
    /\ state = EmptyState
    /\ pc = "idle"
    /\ args = None
    /\ p1 = None /\ p2 = None
    /\ c1 = None /\ c2 = None
    /\ mid = None
    /\ area = None
    /\ trace = <<>>
    /\ result = NoResult

\* find_area's frame is gone: its parameters and locals with it
Unwind ==
    /\ pc' = "idle"
    /\ args' = None
    /\ p1' = None /\ p2' = None
    /\ c1' = None /\ c2' = None
    /\ mid' = None
    /\ area' = None

\* find_area saving the postcodes it has normalised before the exception leaves
FindAreaRaise_partial(e) ==
    /\ Unwind
    /\ result' = ErrorResult("find_area", e)
    /\ state' = Commit(state, [person_1_postcode |-> p1, person_2_postcode |-> p2])

\* an exception leaves find_area: the tool reports it, nothing is committed
FindAreaRaise(e) ==
    /\ Unwind
    /\ result' = ErrorResult("find_area", e)
    /\ UNCHANGED state

\* one call find_area made: the callee, its arguments, the reply of the
\* remote service (None for a local call) and the outcome
Call(op, a, reply, out) == [op |-> op, arg |-> a, reply |-> reply, out |-> out]

(***************************************************************************)
(* find_area, line by line.                                                *)
(***************************************************************************)
\* the coordinator calls find_area(person_1_postcode, person_2_postcode)
FindAreaCall ==
    /\ pc = "idle"
    /\ \E a \in RawInputs, b \in RawInputs : args' = Some(<<a, b>>)
    /\ pc' = "normalize"
    /\ trace' = <<>>
    /\ result' = NoResult
    /\ UNCHANGED <<state, p1, p2, c1, c2, mid, area>>

\* p1 = person_1_postcode.replace(" ", "").upper(); p2 likewise
FindAreaNormalize ==
    /\ pc = "normalize"
    /\ p1' = Some(normalize(args[1][1]))
    /\ p2' = Some(normalize(args[1][2]))
    /\ pc' = "geo1"
    /\ UNCHANGED <<state, args, c1, c2, mid, area, trace, result>>

\* find_area catching the first geocode's exception and going on without coordinates
FindAreaGeo1_continue ==
    /\ pc = "geo1"
    /\ \E reply \in GeoReplies :
         LET out == postcode_to_latlon(p1[1], reply) IN
         /\ trace' = Append(trace, Call("postcode_to_latlon", p1[1], Some(reply), out))
         /\ c1' = IF out.ok THEN out.val ELSE Some(<<None, None>>)
         /\ pc' = "geo2"
         /\ UNCHANGED <<state, args, p1, p2, c2, mid, area, result>>

\* lat1, lon1 = postcode_to_latlon(p1)
FindAreaGeo1 ==
    /\ pc = "geo1"
    /\ \E reply \in GeoReplies :
         LET out == postcode_to_latlon(p1[1], reply) IN
         /\ trace' = Append(trace, Call("postcode_to_latlon", p1[1], Some(reply), out))
         /\ IF out.ok
            THEN /\ c1' = out.val
                 /\ pc' = "geo2"
                 /\ UNCHANGED <<state, args, p1, p2, c2, mid, area, result>>
            ELSE FindAreaRaise(out.exc)

\* lat2, lon2 = postcode_to_latlon(p2)
FindAreaGeo2 ==
    /\ pc = "geo2"
    /\ \E reply \in GeoReplies :
         LET out == postcode_to_latlon(p2[1], reply) IN
         /\ trace' = Append(trace, Call("postcode_to_latlon", p2[1], Some(reply), out))
         /\ IF out.ok
            THEN /\ c2' = out.val
                 /\ pc' = "midpoint"
                 /\ UNCHANGED <<state, args, p1, p2, c1, mid, area, result>>
            ELSE FindAreaRaise(out.exc)

\* mid_lat, mid_lon = midpoint_latlon(lat1, lon1, lat2, lon2)
FindAreaMidpoint ==
    /\ pc = "midpoint"
    /\ LET a == <<c1[1][1], c1[1][2], c2[1][1], c2[1][2]>>
           out == midpoint_latlon(a[1], a[2], a[3], a[4]) IN
       /\ trace' = Append(trace, Call("midpoint_latlon", a, None, out))
       /\ IF out.ok
          THEN /\ mid' = out.val
               /\ pc' = "reverse"
               /\ UNCHANGED <<state, args, p1, p2, c1, c2, area, result>>
          ELSE FindAreaRaise(out.exc)

\* area = latlong_to_area(mid_lat, mid_lon)
FindAreaReverse ==
    /\ pc = "reverse"
    /\ \E reply \in RevReplies :
         LET a == <<mid[1][1], mid[1][2]>>
             out == latlong_to_area(a[1], a[2], reply) IN
         /\ trace' = Append(trace, Call("latlong_to_area", reverse_url(a[1], a[2]),
                                        Some(reply), out))
         /\ IF out.ok
            THEN /\ area' = out.val
                 /\ pc' = "return"
                 /\ UNCHANGED <<state, args, p1, p2, c1, c2, mid, result>>
            ELSE FindAreaRaise(out.exc)

\* the update find_area builds: Command(update={...})
FindAreaUpdate ==
    [person_1_postcode |-> p1,
     person_2_postcode |-> p2,
     midpoint_area |-> area[1].district]

\* return await Command(update={...})
FindAreaReturn ==
    /\ pc = "return"
    /\ LET out == Await(FindAreaUpdate) IN
       IF out.ok
       THEN /\ Unwind
            /\ result' = CommandResult("find_area", out.val[1])
            /\ state' = Commit(state, out.val[1])
       ELSE FindAreaRaise(out.exc)
    /\ UNCHANGED trace

(***************************************************************************)
(* search_food, search_activity, update_state.                             *)
(***************************************************************************)
\* str(x) inside an f-string: None prints as "None"
format(v) == IF v = None THEN "None" ELSE v[1]

FoodPrefix == "Find the top 3 suitable food spots within "
ActivityPrefix == "Find the top 3 suitable activities within "

\* the query a search tool sends to its sub-agent
search_query(prefix, st) ==
    LET midpoint_area == get(st, "midpoint_area") IN <<prefix, format(midpoint_area)>>

\* search_food: the food agent answers, or its invocation raises
SearchFood ==
    /\ pc = "idle"
    /\ LET query == search_query(FoodPrefix, state) IN
       \/ \E answer \in AgentAnswers : result' = TextResult("search_food", query, answer)
       \/ result' = [ErrorResult("search_food", "Exception") EXCEPT !.query = Some(query)]
    /\ trace' = <<>>
    /\ UNCHANGED <<state, pc, args, p1, p2, c1, c2, mid, area>>

\* search_activity: the activity agent answers, or its invocation raises
SearchActivity ==
    /\ pc = "idle"
    /\ LET query == search_query(ActivityPrefix, state) IN
       \/ \E answer \in AgentAnswers : result' = TextResult("search_activity", query, answer)
       \/ result' = [ErrorResult("search_activity", "Exception") EXCEPT !.query = Some(query)]
    /\ trace' = <<>>
    /\ UNCHANGED <<state, pc, args, p1, p2, c1, c2, mid, area>>

\* the update update_state builds from its five arguments
UpdateStateUpdate(person_1_postcode, person_2_postcode, midpoint_area, food_place, activity_place) ==
    [person_1_postcode |-> Some(person_1_postcode),
     person_2_postcode |-> Some(person_2_postcode),
     midpoint_area |-> Some(midpoint_area),
     food_place |-> Some(food_place),
     activity_place |-> Some(activity_place)]

UpdateState ==
    /\ pc = "idle"
    /\ \E a \in RawInputs, b \in RawInputs, m \in AreaInputs,
          f \in PlaceInputs, v \in PlaceInputs :
         LET u == UpdateStateUpdate(a, b, m, f, v) IN
         /\ result' = CommandResult("update_state", u)
         /\ state' = Commit(state, u)
    /\ trace' = <<>>
    /\ UNCHANGED <<pc, args, p1, p2, c1, c2, mid, area>>

Next ==
    \/ FindAreaCall
    \/ FindAreaNormalize
    \/ FindAreaGeo1
    \/ FindAreaGeo2
    \/ FindAreaMidpoint
    \/ FindAreaReverse
    \/ FindAreaReturn
    \/ SearchFood
    \/ SearchActivity
    \/ UpdateState

Spec == Init /\ [][Next]_vars

(***************************************************************************)
(* The normalisation alone, on every string of at most MaxLen characters:  *)
(* find_area has just been called with two such strings.                   *)
(***************************************************************************)
InitNormalize ==
    /\ state = EmptyState
    /\ pc = "normalize"
    /\ args \in {Some(<<a, b>>) : a \in Strings, b \in Strings}
    /\ p1 = None /\ p2 = None
    /\ c1 = None /\ c2 = None
    /\ mid = None
    /\ area = None
    /\ trace = <<>>
    /\ result = NoResult

NextNormalize == FindAreaNormalize

SpecNormalize == InitNormalize /\ [][NextNormalize]_vars

(***************************************************************************)
(* Properties.                                                             *)
(***************************************************************************)
Last(s) == s[Len(s)]

\* the fields of a reply's JSON body, read without the code's helpers
StatusSuccess(data) == "status" \in DOMAIN data /\ data.status = Some(200)
ResultAbsentOrNull(data) == "result" \notin DOMAIN data \/ data.result = None

\* C1: a find_area call that fails (either geocode, the midpoint, the reverse
\* lookup) ends the invocation in one reported error, proposes no update and
\* leaves MeetUpState exactly as it was.
C1_FailureLeavesStateAlone ==
    [][(trace' # trace /\ trace' # <<>> /\ ~Last(trace').out.ok)
         => /\ state' = state
            /\ pc' = "idle"
            /\ result' = ErrorResult("find_area", Last(trace').out.exc)
            /\ result'.update = None]_vars

\* the reverse lookup has failed after both geocodes succeeded, with a state
\* that held postcodes before the call
C1_Witness ==
    /\ pc = "idle"
    /\ Len(trace) = 4
    /\ trace[4].op = "latlong_to_area"
    /\ ~trace[4].out.ok
    /\ result.kind = "error"
    /\ state.person_1_postcode # None

\* every call of the invocation returned
LookupsSucceeded == Len(trace) = 4 /\ \A i \in 1..4 : trace[i].out.ok

\* C2: when both geocodes and the reverse lookup succeed, find_area returns a
\* proposal holding the two normalized postcodes and the resolved district.
C2_SuccessReturnsProposal ==
    (pc = "idle" /\ LookupsSucceeded)
      => /\ result.kind = "command"
         /\ result.update = Some([person_1_postcode |-> Some(trace[1].arg),
                                  person_2_postcode |-> Some(trace[2].arg),
                                  midpoint_area |-> trace[4].out.val[1].district])

\* C3: latlong_to_area raises the same exception for a non-success status and
\* for an empty or absent result list, find_area then reports it and proposes
\* nothing; it returns only for a success status and a non-empty list, and
\* then the descriptor of the first entry.
C3_ReverseFailuresAlike ==
    \A i \in 1..Len(trace) :
      (trace[i].op = "latlong_to_area" /\ ~trace[i].reply[1].failed) =>
        LET data == trace[i].reply[1].body[1]
            out == trace[i].out
            empty == ResultAbsentOrNull(data) \/ data.result[1] = <<>>
        IN  /\ (~StatusSuccess(data) \/ empty)
                 => /\ out = Raise("ValueError")
                    /\ pc = "idle"
                    /\ result = ErrorResult("find_area", "ValueError")
            /\ out.ok
                 => /\ StatusSuccess(data) /\ ~empty
                    /\ out.val[1] = [postcode |-> data.result[1][1].postcode,
                                     district |-> data.result[1][1].admin_district,
                                     region |-> data.result[1][1].region]
            /\ out.ok \/ out.exc = "ValueError"

\* a success status with an empty result list has been reported as ValueError
C3_Witness ==
    /\ pc = "idle"
    /\ Len(trace) = 4
    /\ trace[4].reply[1] = [failed |-> FALSE,
                            body |-> Some([status |-> Some(200), result |-> Some(<<>>)])]
    /\ result = ErrorResult("find_area", "ValueError")

\* Python's LookupError and its subclasses
LookupErrors == {"LookupError", "KeyError", "IndexError"}

\* C4: postcode_to_latlon raises LookupError, and returns no coordinate,
\* whenever the response has a non-success status or no result (absent or null).
C4_GeocodeFailsWithLookupError ==
    \A i \in 1..Len(trace) :
      (trace[i].op = "postcode_to_latlon" /\ ~trace[i].reply[1].failed) =>
        LET data == trace[i].reply[1].body[1] IN
        (~StatusSuccess(data) \/ ResultAbsentOrNull(data))
          => (~trace[i].out.ok /\ trace[i].out.exc \in LookupErrors)

CallOrder == <<"postcode_to_latlon", "postcode_to_latlon", "midpoint_latlon",
               "latlong_to_area">>

\* C5: the calls of one invocation are geocode, geocode, midpoint, reverse
\* lookup in that order, each made only after every earlier one returned; the
\* reverse lookup is asked about set coordinates, the mean of the two geocoded.
C5_CallsInOrder ==
    /\ Len(trace) <= 4
    /\ \A i \in 1..Len(trace) : trace[i].op = CallOrder[i]
    /\ \A i \in 1..(Len(trace) - 1) : trace[i].out.ok
    /\ Len(trace) = 4 =>
         LET g1 == trace[1].out.val[1]
             g2 == trace[2].out.val[1]
             url == trace[4].arg
         IN  /\ None \notin {url.lat, url.lon, g1[1], g1[2], g2[1], g2[2]}
             /\ 2 * url.lat[1] = g1[1][1] + g2[1][1]
             /\ 2 * url.lon[1] = g1[2][1] + g2[2][1]

\* the reverse lookup has been issued for two different geocoded points
C5_Witness ==
    /\ Len(trace) = 4
    /\ trace[4].op = "latlong_to_area"
    /\ trace[1].out.val # trace[2].out.val

\* no whitespace and no lower-case letter
IsNormalized(s) == \A i \in 1..Len(s) : s[i] \notin Whitespace /\ s[i] \notin LowerCase

\* C6: whichever tools have run, a postcode held in MeetUpState is normalized.
C6_StatePostcodesNormalized ==
    \A k \in {"person_1_postcode", "person_2_postcode"} :
      state[k] # None => IsNormalized(state[k][1])

\* the canonical form: every whitespace character dropped, letters upper-cased
RECURSIVE Canon(_)
Canon(s) ==
    IF s = <<>> THEN <<>>
    ELSE IF Head(s) \in Whitespace THEN Canon(Tail(s))
         ELSE <<IF Head(s) \in LowerCase THEN "E" ELSE Head(s)>> \o Canon(Tail(s))

\* C7: find_area's normalization gives the canonical form, so two inputs that
\* differ only in whitespace or case give one string, and it is idempotent.
C7_NormalizationCanonical ==
    pc = "geo1" =>
      /\ p1[1] = Canon(args[1][1])
      /\ p2[1] = Canon(args[1][2])
      /\ Canon(args[1][1]) = Canon(args[1][2]) => p1 = p2
      /\ normalize(p1[1]) = p1[1]

\* C8: midpoint_latlon is called with the pair geocoded for normalized person
\* 1, then the pair for person 2; its result is the mean, latitude first, and
\* is what the reverse lookup is asked about; exchanging the people gives the
\* same midpoint.
C8_MidpointOfGeocodedPairs ==
    /\ (Len(trace) >= 1 /\ args # None) => trace[1].arg = normalize(args[1][1])
    /\ (Len(trace) >= 2 /\ args # None) => trace[2].arg = normalize(args[1][2])
    /\ Len(trace) >= 3 =>
         LET g1 == trace[1].out.val[1]
             g2 == trace[2].out.val[1]
             m == trace[3]
         IN  /\ m.arg = <<g1[1], g1[2], g2[1], g2[2]>>
             /\ m.out.ok =>
                  /\ 2 * m.out.val[1][1][1] = g1[1][1] + g2[1][1]
                  /\ 2 * m.out.val[1][2][1] = g1[2][1] + g2[2][1]
                  /\ midpoint_latlon(g2[1], g2[2], g1[1], g1[2]) = m.out
    /\ Len(trace) = 4 =>
         /\ trace[4].arg.lat = trace[3].out.val[1][1]
         /\ trace[4].arg.lon = trace[3].out.val[1][2]

\* (51.50, -0.10) and (51.52, -0.12) were geocoded for "e 1" and "E1", and the
\* reverse lookup was asked about (51.51, -0.11)
C8_Witness ==
    /\ pc = "return"
    /\ args = Some(<<<<"e", Space, "1">>, <<"E", "1">>>>)
    /\ trace[1].out.val = Some(<<Some(10300), Some(-20)>>)
    /\ trace[2].out.val = Some(<<Some(10304), Some(-24)>>)
    /\ trace[4].arg = [lon |-> Some(-22), lat |-> Some(10302), radius |-> 2000, limit |-> 1]

\* a JSON string that is neither null nor ""
NonEmpty(v) == v # None /\ v[1] # ""

\* C9: an AreaDescriptor latlong_to_area returns has a non-empty postcode,
\* district and region.
C9_DescriptorFieldsNonEmpty ==
    \A i \in 1..Len(trace) :
      (trace[i].op = "latlong_to_area" /\ trace[i].out.ok) =>
        LET d == trace[i].out.val[1] IN
        NonEmpty(d.postcode) /\ NonEmpty(d.district) /\ NonEmpty(d.region)

SearchTools == {"search_food", "search_activity"}

\* C10: a search tool queries its sub-agent only when MeetUpState holds a
\* midpoint_area, and leaves MeetUpState as it was.
C10_SearchNeedsMidpointArea ==
    [][(result'.tool \in SearchTools /\ result'.query # None)
         => (state.midpoint_area # None /\ state' = state)]_vars

====
